---- MODULE Spec2Model ----
(***************************************************************************)
(* render-nodes-minimal/main.c: one process that parses its command line,  *)
(* reads a compute shader, and runs it once in a surfaceless EGL/GLES 3.1  *)
(* context on a DRM render node.                                           *)
(*                                                                         *)
(* The state is the program's own (opts, ssbo_table, the statics of        *)
(* readfile and setup_ubo, the position in main/run), the record of what   *)
(* it asked of the outside (the external calls in issue order, what it     *)
(* printed) and the part of the GL state its later calls read back (buffer *)
(* objects, buffer bindings, the sticky error flag, the dispatched work).  *)
(* What the outside answers (open fails, the shader does not compile, the  *)
(* program has no "Output" block, ...) is chosen by \E in the action that  *)
(* asks.                                                                   *)
(*                                                                         *)
(* assert() is live (the source does not define NDEBUG): a failed          *)
(* assertion aborts the process at its line.                               *)
(*                                                                         *)
(* unsigned (32 bit) values are held as the int with the same bits, since  *)
(* every use the program makes of opts.bo_size but one converts it to int  *)
(* (sz at lines 162 and 185, sizedwords at line 210); the one other use,   *)
(* opts.bo_size * 4 at line 208, is held in dwords (see MapDwords).        *)
(***************************************************************************)
EXTENDS Integers, Sequences, FiniteSets

(* ---------------------------------------------------------------- bounds *)

\* Options on one command line.
MaxOpts == 2
\* Positional arguments on one command line (the code wants exactly one).
MaxPositional == 2

(* ------------------------------------------------------------- constants *)

\* sizeof(text), line 70.
TextSize == 64 * 1024
\* Entries of ssbo_table, line 173.
SsboTableLen == 256
\* GL_INVALID_INDEX (0xFFFFFFFF) read as an int.
GL_INVALID_INDEX == -1
\* 2^30: opts.bo_size * 4 is taken modulo 2^32, so in dwords modulo 2^30.
TwoTo30 == 1024 * 1024 * 1024

(* ---------------------------------------------------------------- inputs *)

\* optarg of -S: a decimal string, as a sign and its leading digits ("x"
\* has no leading digit).
SizeStrs ==
  { [neg |-> TRUE,  digits |-> <<1>>],       \* "-1"
    [neg |-> FALSE, digits |-> <<>>],        \* "x"
    [neg |-> FALSE, digits |-> <<1, 2>>] }   \* "12"

\* optarg of -G: the unsigned fields that "%u,%u,%u" can match, in order.
GroupStrs == { <<2, 3>>, <<2, 3, 4>>, <<5, 6, 7, 8>> }

DeviceStrs == { "/dev/dri/renderD129" }

\* What getopt_long_only hands back for one option of the command line:
\* 'D', 'G', 'S' with optarg, or '?' (unknown option, missing argument).
Options ==
  [opt : {"D"}, arg : DeviceStrs] \cup
  [opt : {"G"}, arg : GroupStrs] \cup
  [opt : {"S"}, arg : SizeStrs] \cup
  { [opt |-> "?"] }

RECURSIVE SeqsUpTo(_, _)
SeqsUpTo(S, n) ==
  IF n = 0 THEN { <<>> }
  ELSE LET shorter == SeqsUpTo(S, n - 1)
       IN shorter \cup { Append(s, x) : s \in { t \in shorter : Len(t) = n - 1 }, x \in S }

\* Lengths of the shader file, and what read() can return for them.
FileLens == { 100, TextSize, TextSize + 4464 }

\* Resource indices a linked program can give its blocks.
BlockIdx == { GL_INVALID_INDEX, 0, 1 }

TexNames == { "tex2d0", "img2d0in", "img2d0out" }

\* The sampler/image uniforms a shader may declare, out of those run() asks for.
TexSets == { {}, { "tex2d0", "img2d0out" }, TexNames }

\* What the linked program answers to the queries of setup_ssbo, setup_ubo,
\* setup_tex2d and dump_ssbo: the index of each shader storage block and of
\* the uniform block (two active blocks never share an index), and the
\* sampler/image uniforms that are active.
Programs ==
  { p \in [ssboIn : BlockIdx, ssboOut : BlockIdx, ubo : BlockIdx, tex : TexSets] :
      /\ p.ssboIn # GL_INVALID_INDEX => p.ssboIn # p.ssboOut
      /\ p.ubo \in { GL_INVALID_INDEX, 0 } }

\* What the dispatched shader leaves in each dword of the "Output" block.
GpuWords == { 1 }

(* ----------------------------------------------------------------- state *)

VARIABLES
  pc,          \* position in main / run
  status,      \* "running", "returned" (main), "exited" (exit()), "aborted" (assert), "crashed"
  retcode,     \* main's return value or exit()'s argument
  abortLine,   \* line of the assert that failed, 0 if none
  args,        \* the options of the command line, as getopt returns them
  npos,        \* the number of positional arguments
  optidx,      \* options consumed so far
  opts,        \* opts, lines 44-56
  readRet,     \* ret of readfile, line 71 ("none" before the call is modelled as -2)
  nulIndex,    \* index of text[] written at line 76, -1 if none
  runCalls,    \* calls of run()
  calls,       \* external calls issued by run(), in order: [fn, at (line)]
  out,         \* what was printed, in order
  shaderRet,   \* GLint ret of run, lines 302-308: << >> until line 303 sets it
  prog,        \* the linked program's resources
  buffers,     \* buffer objects: name -> [hasStore, size (bytes), data (dwords)]
  bound,       \* the generic buffer binding points: target -> name
  bindings,    \* the indexed buffer binding points: {<<target, index, name>>}
  ssbo_table,  \* line 173
  cnt,         \* static cnt of setup_ubo, line 153
  unit,        \* GLint unit of run, line 335
  glError,     \* GL's sticky error flag
  gpu,         \* the dispatched work: "none", "pending", "done"
  dispatches,  \* the arguments of each glDispatchCompute
  textures,    \* textures set up: [name, unit, image, initialize]
  mapCall,     \* the glMapBufferRange of dump_ssbo: <<>> or <<[buf, dwords]>>
  dumped       \* the dwords hexdump_dwords printed: <<>> or <<sequence>>

vars == << pc, status, retcode, abortLine, args, npos, optidx, opts, readRet,
           nulIndex, runCalls, calls, out, shaderRet, prog, buffers, bound,
           bindings, ssbo_table, cnt, unit, glError, gpu, dispatches, textures, mapCall,
           dumped >>

mainVars == << args, npos, optidx, opts, readRet, nulIndex, runCalls >>
glVars   == << shaderRet, prog, buffers, bound, bindings, ssbo_table, cnt, unit, glError,
               gpu, dispatches, textures, mapCall, dumped >>

(* ------------------------------------------------------------------ main *)

\* opts as initialised at lines 51-56.
DefaultOpts ==
  [ shader |-> -1,
    device |-> "/dev/dri/renderD128",
    num_groups |-> [x |-> 1, y |-> 1, z |-> 1],
    bo_size |-> 256 ]

Init ==
  /\ pc = "getopt"
  /\ status = "running"
  /\ retcode = 0
  /\ abortLine = 0
  /\ args \in SeqsUpTo(Options, MaxOpts)
  /\ npos \in 0..MaxPositional
  /\ optidx = 0
  /\ opts = DefaultOpts
  /\ readRet = -2
  /\ nulIndex = -1
  /\ runCalls = 0
  /\ calls = <<>>
  /\ out = <<>>
  /\ shaderRet = <<>>
  /\ prog = [ssboIn |-> GL_INVALID_INDEX, ssboOut |-> GL_INVALID_INDEX,
             ubo |-> GL_INVALID_INDEX, tex |-> {}]
  /\ buffers = <<>>
  /\ bound = [t \in {"SSBO", "UBO"} |-> 0]
  /\ bindings = {}
  /\ ssbo_table = [i \in 0..(SsboTableLen - 1) |-> 0]
  /\ cnt = 0
  /\ unit = 0
  /\ glError = FALSE
  /\ gpu = "none"
  /\ dispatches = <<>>
  /\ textures = <<>>
  /\ mapCall = <<>>
  /\ dumped = <<>>

\* atoi: the value of the leading digits, negated after a '-'.
RECURSIVE DigitsValue(_)
DigitsValue(ds) ==
  IF ds = <<>> THEN 0 ELSE 10 * DigitsValue(SubSeq(ds, 1, Len(ds) - 1)) + ds[Len(ds)]

atoi(s) == IF s.neg THEN 0 - DigitsValue(s.digits) ELSE DigitsValue(s.digits)

\* sscanf(optarg, "%u,%u,%u", &x, &y, &z): stores the fields it matches, at
\* most three, and returns how many.
sscanf_ret(fields) == IF Len(fields) < 3 THEN Len(fields) ELSE 3

sscanf_store(g, fields) ==
  [ x |-> IF Len(fields) >= 1 THEN fields[1] ELSE g.x,
    y |-> IF Len(fields) >= 2 THEN fields[2] ELSE g.y,
    z |-> IF Len(fields) >= 3 THEN fields[3] ELSE g.z ]

\* argv entries one option takes ("-S 12" takes two, an unknown "-x" one).
ArgvEntries(o) == IF o.opt = "?" THEN 1 ELSE 2

RECURSIVE ArgvSum(_)
ArgvSum(os) == IF os = <<>> THEN 0 ELSE ArgvEntries(Head(os)) + ArgvSum(Tail(os))

argc == 1 + ArgvSum(args) + npos
\* optind once getopt_long_only has returned -1: it has moved the options
\* before the positional arguments.
optind == 1 + ArgvSum(args)

\* Line 400, negated: the one positional argument is there.
OnePositional_Mutant(ind, ac) == ind <= ac - 1
OnePositional(ind, ac) == ind = ac - 1

\* usage: label, lines 409-411.
GotoUsage ==
  /\ out' = Append(out, "usage")
  /\ status' = "returned"
  /\ retcode' = -1
  /\ pc' = "done"

\* One turn of the loop at lines 381-398.
GetoptOption ==
  /\ pc = "getopt"
  /\ status = "running"
  /\ optidx < Len(args)
  /\ LET o == args[optidx + 1] IN
       /\ optidx' = optidx + 1
       /\ CASE o.opt = "D" ->
                 /\ opts' = [opts EXCEPT !.device = o.arg]
                 /\ UNCHANGED << out, status, retcode, pc >>
            [] o.opt = "G" ->
                 /\ opts' = [opts EXCEPT !.num_groups = sscanf_store(@, o.arg)]
                 /\ IF sscanf_ret(o.arg) # 3
                      THEN GotoUsage
                      ELSE UNCHANGED << out, status, retcode, pc >>
            [] o.opt = "S" ->
                 /\ opts' = [opts EXCEPT !.bo_size = atoi(o.arg)]
                 /\ UNCHANGED << out, status, retcode, pc >>
            [] OTHER ->
                 /\ opts' = opts
                 /\ GotoUsage
  /\ UNCHANGED << abortLine, args, npos, readRet, nulIndex, runCalls, calls >>
  /\ UNCHANGED glVars

\* getopt_long_only returns -1; lines 400-401.
GetoptDone ==
  /\ pc = "getopt"
  /\ status = "running"
  /\ optidx = Len(args)
  /\ IF OnePositional(optind, argc)
       THEN /\ pc' = "readfile"
            /\ UNCHANGED << out, status, retcode >>
       ELSE GotoUsage
  /\ UNCHANGED << abortLine, calls >>
  /\ UNCHANGED mainVars
  /\ UNCHANGED glVars

(* -------------------------------------------------------------- readfile *)

Min(a, b) == IF a < b THEN a ELSE b

\* What read(fd, text, sizeof(text)) can return: -1 on a bad descriptor or
\* an unreadable file, else the bytes read, at most sizeof(text).
ReadResults(fd, size) ==
  IF fd < 0 THEN { -1 } ELSE { -1 } \cup { Min(len, size) : len \in FileLens }

\* Line 403 and readfile, lines 68-78. text[ret] = '\0' with ret =
\* sizeof(text) writes one byte past the array: undefined behaviour, after
\* which the process goes on or dies.
Readfile ==
  /\ pc = "readfile"
  /\ status = "running"
  /\ \E fd \in { -1, 3 } : \E ret \in ReadResults(fd, TextSize) :
       /\ readRet' = ret
       /\ IF ret < 0
            THEN /\ out' = Append(out, "error reading shader")
                 /\ status' = "exited"
                 /\ retcode' = -1
                 /\ pc' = "done"
                 /\ UNCHANGED << nulIndex, opts >>
            ELSE /\ nulIndex' = ret
                 /\ opts' = [opts EXCEPT !.shader = ret]
                 /\ out' = out
                 /\ retcode' = retcode
                 /\ \E survives \in IF ret < TextSize THEN { TRUE } ELSE { TRUE, FALSE } :
                      IF survives
                        THEN pc' = "run" /\ status' = status
                        ELSE pc' = "done" /\ status' = "crashed"
  /\ UNCHANGED << abortLine, args, npos, optidx, runCalls, calls >>
  /\ UNCHANGED glVars

(* ------------------------------------------------------------------- run *)

Call(fn, at) == [fn |-> fn, at |-> at]

\* assert(cond) at `line`, then on to `next`.
AssertThen(cond, line, next) ==
  IF cond
    THEN pc' = next /\ UNCHANGED << status, abortLine >>
    ELSE pc' = "done" /\ status' = "aborted" /\ abortLine' = line

\* A call whose result the next line asserts.
CallAndAssert(at, issued, line, next) ==
  /\ pc = at
  /\ status = "running"
  /\ \E ok \in BOOLEAN :
       /\ calls' = calls \o issued
       /\ AssertThen(ok, line, next)
  /\ UNCHANGED << retcode, out >>
  /\ UNCHANGED mainVars
  /\ UNCHANGED glVars

\* Line 405, and lines 219-220: fd is -1, 0 or a descriptor above 0.
OpenDevice ==
  /\ pc = "run"
  /\ status = "running"
  /\ runCalls' = runCalls + 1
  /\ \E fd \in { -1, 0, 3 } :
       /\ calls' = Append(calls, Call("open", 219))
       /\ AssertThen(fd > 0, 220, "gbm")
  /\ UNCHANGED << retcode, out, args, npos, optidx, opts, readRet, nulIndex >>
  /\ UNCHANGED glVars

\* Lines 222-226.
CreateGbmDevice ==
  /\ pc = "gbm"
  /\ status = "running"
  /\ \E ok \in BOOLEAN :
       /\ calls' = calls \o
            (IF ok THEN << Call("gbm_create_device", 222),
                           Call("eglGetProcAddress", 225),
                           Call("eglGetProcAddress", 226) >>
                   ELSE << Call("gbm_create_device", 222) >>)
       /\ AssertThen(ok, 223, "egl_dpy")
  /\ UNCHANGED << retcode, out >>
  /\ UNCHANGED mainVars
  /\ UNCHANGED glVars

\* Lines 229-230.
GetPlatformDisplay ==
  CallAndAssert("egl_dpy", << Call("eglGetPlatformDisplay", 229) >>, 230, "egl_init")

\* Lines 232-233.
EglInitialize ==
  CallAndAssert("egl_init", << Call("eglInitialize", 232) >>, 233, "egl_ext")

\* Lines 235-237: both extensions must be in the string.
QueryExtensions ==
  /\ pc = "egl_ext"
  /\ status = "running"
  /\ calls' = Append(calls, Call("eglQueryString", 235))
  /\ \E create_context \in BOOLEAN, surfaceless_context \in BOOLEAN :
       IF ~create_context
         THEN AssertThen(FALSE, 236, "egl_cfg")
         ELSE AssertThen(surfaceless_context, 237, "egl_cfg")
  /\ UNCHANGED << retcode, out >>
  /\ UNCHANGED mainVars
  /\ UNCHANGED glVars

\* Lines 246-247.
ChooseConfig ==
  CallAndAssert("egl_cfg", << Call("eglChooseConfig", 246) >>, 247, "egl_api")

\* Lines 249-250.
BindAPI ==
  CallAndAssert("egl_api", << Call("eglBindAPI", 249) >>, 250, "egl_ctx")

\* Lines 256-258.
CreateContext ==
  CallAndAssert("egl_ctx", << Call("eglCreateContext", 257) >>, 258, "egl_cur")

\* Lines 260-261.
MakeCurrent_Mutant ==
  CallAndAssert("egl_cur", << >>, 261, "limits")
MakeCurrent ==
  CallAndAssert("egl_cur", << Call("eglMakeCurrent", 260) >>, 261, "limits")

\* Lines 264-290: the limits and the shader are printed.
PrintLimits ==
  /\ pc = "limits"
  /\ status = "running"
  /\ calls' = calls \o
       << Call("glGetIntegeri_v", 266), Call("glGetIntegeri_v", 266),
          Call("glGetIntegeri_v", 266), Call("glGetIntegeri_v", 276),
          Call("glGetIntegeri_v", 276), Call("glGetIntegeri_v", 276),
          Call("glGetIntegerv", 283), Call("glGetIntegerv", 287) >>
  /\ out' = out \o << "GL_MAX_COMPUTE_WORK_GROUP_COUNT", "GL_MAX_COMPUTE_WORK_GROUP_SIZE",
                      "GL_MAX_COMPUTE_WORK_GROUP_INVOCATIONS",
                      "GL_MAX_COMPUTE_SHARED_MEMORY_SIZE", "shader:" >>
  /\ pc' = "shader"
  /\ UNCHANGED << status, retcode, abortLine >>
  /\ UNCHANGED mainVars
  /\ UNCHANGED glVars

\* Lines 293-298. glGetError returns the sticky flag and clears it.
CreateShader ==
  /\ pc = "shader"
  /\ status = "running"
  /\ \E err1 \in BOOLEAN, err2 \in BOOLEAN :
       IF glError \/ err1
         THEN /\ calls' = calls \o << Call("glCreateShader", 293), Call("glGetError", 295) >>
              /\ AssertThen(FALSE, 295, "compile")
         ELSE /\ calls' = calls \o << Call("glCreateShader", 293), Call("glGetError", 295),
                                      Call("glShaderSource", 297), Call("glGetError", 298) >>
              /\ AssertThen(~err2, 298, "compile")
  /\ glError' = FALSE
  /\ UNCHANGED << retcode, out >>
  /\ UNCHANGED mainVars
  /\ UNCHANGED << shaderRet, prog, buffers, bound, bindings, ssbo_table, cnt, unit,
                  gpu, dispatches, textures, mapCall, dumped >>

\* Where run() goes after line 303: on, or out by the return of line 315.
AfterCompile_Mutant(compiled) == "link"
AfterCompile(compiled) == IF compiled THEN "link" ELSE "run_ret"

\* Lines 300-316. The info log is fetched and printed when its length,
\* the terminating NUL included, is above 1.
CompileShader ==
  /\ pc = "compile"
  /\ status = "running"
  /\ \E compiled \in BOOLEAN, loglen \in 0..2 :
       /\ pc' = AfterCompile(compiled)
       /\ IF compiled
            THEN /\ calls' = calls \o << Call("glCompileShader", 300), Call("glGetShaderiv", 303) >>
                 /\ out' = out
                 /\ shaderRet' = << 1 >>
            ELSE /\ calls' = calls \o
                      << Call("glCompileShader", 300), Call("glGetShaderiv", 303),
                         Call("glGetShaderiv", 308) >> \o
                      (IF loglen > 1 THEN << Call("glGetShaderInfoLog", 312) >> ELSE << >>)
                 /\ out' = out \o << "shader compilation failed!:" >> \o
                      (IF loglen > 1 THEN << "info log" >> ELSE << >>)
                 /\ shaderRet' = << loglen >>
  /\ UNCHANGED << status, retcode, abortLine >>
  /\ UNCHANGED mainVars
  /\ UNCHANGED << prog, buffers, bound, bindings, ssbo_table, cnt, unit, glError,
                  gpu, dispatches, textures, mapCall, dumped >>

\* Lines 318-326. The shader decides which blocks and uniforms the linked
\* program has.
LinkProgram ==
  /\ pc = "link"
  /\ status = "running"
  /\ \E err1 \in BOOLEAN, err2 \in BOOLEAN :
       IF glError \/ err1
         THEN /\ calls' = calls \o << Call("glCreateProgram", 318), Call("glAttachShader", 320),
                                      Call("glGetError", 321) >>
              /\ AssertThen(FALSE, 321, "use")
              /\ prog' = prog
         ELSE IF err2
         THEN /\ calls' = calls \o << Call("glCreateProgram", 318), Call("glAttachShader", 320),
                                      Call("glGetError", 321), Call("glLinkProgram", 323),
                                      Call("glGetError", 324) >>
              /\ AssertThen(FALSE, 324, "use")
              /\ prog' = prog
         ELSE /\ calls' = calls \o << Call("glCreateProgram", 318), Call("glAttachShader", 320),
                                      Call("glGetError", 321), Call("glLinkProgram", 323),
                                      Call("glGetError", 324), Call("glDeleteShader", 326) >>
              /\ AssertThen(TRUE, 324, "use")
              /\ prog' \in Programs
  /\ glError' = FALSE
  /\ UNCHANGED << retcode, out >>
  /\ UNCHANGED mainVars
  /\ UNCHANGED << shaderRet, buffers, bound, bindings, ssbo_table, cnt, unit, gpu,
                  dispatches, textures, mapCall, dumped >>

\* Lines 328-329.
UseProgram ==
  /\ pc = "use"
  /\ status = "running"
  /\ \E err \in BOOLEAN :
       /\ calls' = calls \o << Call("glUseProgram", 328), Call("glGetError", 329) >>
       /\ AssertThen(~(glError \/ err), 329, "ssbo_in")
  /\ glError' = FALSE
  /\ UNCHANGED << retcode, out >>
  /\ UNCHANGED mainVars
  /\ UNCHANGED << shaderRet, prog, buffers, bound, bindings, ssbo_table, cnt, unit, gpu,
                  dispatches, textures, mapCall, dumped >>

(* ------------------------------------------------- buffers and textures *)

\* mem, lines 80-91: calloc'ed dwords, dword i set to i when asked. A
\* negative count converts to a size calloc cannot give: NULL, and the
\* loop at line 85 does not run.
mem_Mutant(dwords, initialize) ==
  IF dwords < 0 THEN << >>
  ELSE [i \in 1..dwords |-> i - 1]
mem(dwords, initialize) ==
  IF dwords < 0 THEN << >>
  ELSE [i \in 1..dwords |-> IF initialize THEN i - 1 ELSE 0]

\* glBufferData(target, size, data, usage): a negative size is
\* GL_INVALID_VALUE and leaves the buffer without a data store.
BufferDataFails(size) == size < 0

BufferData(size, data) ==
  IF BufferDataFails(size)
    THEN [hasStore |-> FALSE, size |-> 0, data |-> << >>]
    ELSE [hasStore |-> TRUE, size |-> size, data |-> SubSeq(data, 1, size \div 4)]

\* glBindBufferBase(target, index, buffer): the indexed binding point, and
\* the generic one of the target too.
BindBufferBase(target, index, buffer) ==
  { b \in bindings : ~(b[1] = target /\ b[2] = index) } \cup { << target, index, buffer >> }

\* The size argument of glBufferData at lines 166 and 189.
BufferBytes(sz) == 4 * sz

\* setup_ssbo(shader_program, name, input), lines 175-194; idx is what
\* glGetProgramResourceIndex answers for the name.
setup_ssbo(name, idx, input, next) ==
  /\ status = "running"
  /\ pc' = next
  /\ IF idx = GL_INVALID_INDEX
       THEN /\ calls' = Append(calls, Call("glGetProgramResourceIndex", 179))
            /\ UNCHANGED << out, buffers, bound, bindings, ssbo_table, glError >>
       ELSE LET sz   == opts.bo_size
                ssbo == Len(buffers) + 1
            IN /\ calls' = calls \o
                    << Call("glGetProgramResourceIndex", 179), Call("glGenBuffers", 187),
                       Call("glBindBuffer", 188), Call("glBufferData", 189),
                       Call("glBindBufferBase", 191) >>
               /\ out' = Append(out, "SSBO: " \o name)
               /\ buffers' = Append(buffers, BufferData(BufferBytes(sz), mem(sz, input)))
               /\ glError' = (glError \/ BufferDataFails(BufferBytes(sz)))
               /\ bound' = [bound EXCEPT !["SSBO"] = ssbo]
               /\ bindings' = BindBufferBase("SSBO", idx, ssbo)
               /\ ssbo_table' = [ssbo_table EXCEPT ![idx] = ssbo]
  /\ UNCHANGED << status, retcode, abortLine >>
  /\ UNCHANGED mainVars
  /\ UNCHANGED << shaderRet, prog, cnt, unit, gpu, dispatches, textures, mapCall, dumped >>

\* Line 331.
SetupSsboInput ==
  /\ pc = "ssbo_in"
  /\ setup_ssbo("Input", prog.ssboIn, TRUE, "ssbo_out")

\* Line 332.
SetupSsboOutput ==
  /\ pc = "ssbo_out"
  /\ setup_ssbo("Output", prog.ssboOut, FALSE, "ubo")

\* Line 333 and setup_ubo, lines 150-171.
SetupUbo ==
  /\ pc = "ubo"
  /\ status = "running"
  /\ pc' = "tex2d0"
  /\ cnt' = cnt + 1
  /\ LET i   == cnt
         idx == prog.ubo
     IN IF idx = GL_INVALID_INDEX
          THEN /\ calls' = Append(calls, Call("glGetUniformBlockIndex", 156))
               /\ UNCHANGED << out, buffers, bound, bindings, glError >>
          ELSE LET sz  == opts.bo_size
                   ubo == Len(buffers) + 1
               IN /\ calls' = calls \o
                       << Call("glGetUniformBlockIndex", 156), Call("glGenBuffers", 164),
                          Call("glBindBuffer", 165), Call("glBufferData", 166),
                          Call("glBindBuffer", 167), Call("glBindBufferBase", 169),
                          Call("glUniformBlockBinding", 170) >>
                  /\ out' = Append(out, "UBO: Input")
                  /\ buffers' = Append(buffers, BufferData(BufferBytes(sz), mem(sz, TRUE)))
                  /\ glError' = (glError \/ BufferDataFails(BufferBytes(sz)))
                  /\ bound' = [bound EXCEPT !["UBO"] = ubo]
                  /\ bindings' = BindBufferBase("UBO", i, ubo)
  /\ UNCHANGED << status, retcode, abortLine >>
  /\ UNCHANGED mainVars
  /\ UNCHANGED << shaderRet, prog, ssbo_table, unit, gpu, dispatches, textures, mapCall, dumped >>

\* strstr(name, "in") of line 130, for the names run() passes.
HasIn(name) == name = "img2d0in"

\* setup_tex2d(shader_program, name, unit, image), lines 111-148, and the
\* assignment of its result to unit.
setup_tex2d(name, image, next) ==
  /\ status = "running"
  /\ pc' = next
  /\ IF name \notin prog.tex
       THEN /\ calls' = Append(calls, Call("glGetUniformLocation", 116))
            /\ UNCHANGED << out, unit, textures >>
       ELSE /\ calls' = calls \o
                 << Call("glGetUniformLocation", 116), Call("glGenTextures", 120),
                    Call("glActiveTexture", 122), Call("glBindTexture", 123),
                    Call("glTexParameteri", 124), Call("glTexParameteri", 125),
                    Call("glTexParameteri", 126), Call("glTexParameteri", 127) >> \o
                 (IF image
                    THEN << Call("glTexStorage2D", 131), Call("glTexSubImage2D", 132),
                            Call("glBindImageTexture", 134) >>
                    ELSE << Call("glTexImage2D", 136), Call("glTexParameteri", 138),
                            Call("glTexParameteri", 139), Call("glUniform1i", 141) >>)
            /\ out' = Append(out, "setup " \o name)
            /\ textures' = Append(textures,
                 [name |-> name, unit |-> unit, image |-> image,
                  initialize |-> IF image THEN HasIn(name) ELSE TRUE])
            /\ unit' = unit + 1
  /\ UNCHANGED << status, retcode, abortLine >>
  /\ UNCHANGED mainVars
  /\ UNCHANGED << shaderRet, prog, buffers, bound, bindings, ssbo_table, cnt, glError, gpu,
                  dispatches, mapCall, dumped >>

\* Line 336.
SetupTex2d0 ==
  /\ pc = "tex2d0"
  /\ setup_tex2d("tex2d0", FALSE, "img2d0in")

\* Line 337.
SetupImg2d0in ==
  /\ pc = "img2d0in"
  /\ setup_tex2d("img2d0in", TRUE, "img2d0out")

\* Line 338.
SetupImg2d0out ==
  /\ pc = "img2d0out"
  /\ setup_tex2d("img2d0out", TRUE, "dispatch")

(* ------------------------------------------------- dispatch and results *)

\* The arguments of line 341.
DispatchArgs_Mutant(o) == << o.num_groups.x, o.num_groups.y, o.num_groups.y >>
DispatchArgs(o) == << o.num_groups.x, o.num_groups.y, o.num_groups.z >>

\* Lines 341-342. glDispatchCompute queues the work and returns; glGetError
\* does not wait for it. A dispatch GL refuses queues nothing.
Dispatch ==
  /\ pc = "dispatch"
  /\ status = "running"
  /\ calls' = calls \o << Call("glDispatchCompute", 341), Call("glGetError", 342) >>
  /\ dispatches' = Append(dispatches, DispatchArgs(opts))
  /\ \E err \in BOOLEAN :
       /\ gpu' = IF err THEN gpu ELSE "pending"
       /\ AssertThen(~(glError \/ err), 342, "print")
  /\ glError' = FALSE
  /\ UNCHANGED << retcode, out >>
  /\ UNCHANGED mainVars
  /\ UNCHANGED << shaderRet, prog, buffers, bound, bindings, ssbo_table, cnt, unit,
                  textures, mapCall, dumped >>

\* Line 344.
PrintSuccess ==
  /\ pc = "print"
  /\ status = "running"
  /\ out' = Append(out, "Compute shader dispatched and finished successfully")
  /\ pc' = "dump"
  /\ UNCHANGED << status, retcode, abortLine, calls >>
  /\ UNCHANGED mainVars
  /\ UNCHANGED glVars

\* The GPU finishes the dispatched work, whenever it does: the shader has
\* written the buffer bound for its "Output" block.
GpuComplete ==
  /\ gpu = "pending"
  /\ status = "running"
  /\ gpu' = "done"
  /\ \E w \in GpuWords :
       buffers' = [b \in DOMAIN buffers |->
                     IF << "SSBO", prog.ssboOut, b >> \in bindings /\ buffers[b].hasStore
                       THEN [buffers[b] EXCEPT !.data = [i \in DOMAIN @ |-> w]]
                       ELSE buffers[b]]
  /\ UNCHANGED << pc, status, retcode, abortLine, calls, out >>
  /\ UNCHANGED mainVars
  /\ UNCHANGED << shaderRet, prog, bound, bindings, ssbo_table, cnt, unit, glError,
                  dispatches, textures, mapCall, dumped >>

\* opts.bo_size * 4 of line 208, in dwords: the product is unsigned, taken
\* modulo 2^32.
MapDwords(bo_size) == bo_size % TwoTo30

\* hexdump_dwords(data, sizedwords), lines 93-109: the dwords the loop
\* prints. (No reachable dump reads past the data store; such a dword
\* is shown as -1.)
hexdump_dwords(data, sizedwords) ==
  [i \in 1..(IF sizedwords > 0 THEN sizedwords ELSE 0) |->
     IF i <= Len(data) THEN data[i] ELSE -1]

\* The buffer dump_ssbo binds at line 207.
DumpBuffer_Mutant(table, idx) == table[0]
DumpBuffer(table, idx) == table[idx]

\* Line 346 and dump_ssbo, lines 196-213. glMapBufferRange maps the buffer
\* at the generic binding point, which line 207 has just set, and waits
\* for the work that writes it.
DumpSsbo ==
  /\ pc = "dump"
  /\ status = "running"
  /\ pc' = "free"
  /\ LET idx == prog.ssboOut
     IN IF idx = GL_INVALID_INDEX
          THEN /\ calls' = Append(calls, Call("glGetProgramResourceIndex", 201))
               /\ UNCHANGED << out, bound, bindings, mapCall, dumped >>
          ELSE /\ gpu # "pending"
               /\ calls' = calls \o
                    << Call("glGetProgramResourceIndex", 201), Call("glBindBufferBase", 207),
                       Call("glMapBufferRange", 208), Call("glUnmapBuffer", 212) >>
               /\ out' = out \o << "Dump SSBO: Output", "hexdump" >>
               /\ bound' = [bound EXCEPT !["SSBO"] = DumpBuffer(ssbo_table, idx)]
               /\ bindings' = BindBufferBase("SSBO", 0, DumpBuffer(ssbo_table, idx))
               /\ mapCall' = << [buf |-> bound'["SSBO"], dwords |-> MapDwords(opts.bo_size)] >>
               /\ dumped' = << hexdump_dwords(
                                 IF bound'["SSBO"] \in DOMAIN buffers
                                   THEN buffers[bound'["SSBO"]].data ELSE << >>,
                                 opts.bo_size) >>
  /\ UNCHANGED << status, retcode, abortLine >>
  /\ UNCHANGED mainVars
  /\ UNCHANGED << shaderRet, prog, buffers, ssbo_table, cnt, unit, glError, gpu, dispatches,
                  textures >>

\* Lines 349-353.
Teardown ==
  /\ pc = "free"
  /\ status = "running"
  /\ calls' = calls \o
       << Call("glDeleteProgram", 349), Call("eglDestroyContext", 350),
          Call("eglTerminate", 351), Call("gbm_device_destroy", 352),
          Call("close", 353) >>
  /\ pc' = "run_ret"
  /\ UNCHANGED << status, retcode, abortLine, out >>
  /\ UNCHANGED mainVars
  /\ UNCHANGED glVars

\* run() has returned to line 405; line 407.
MainReturn ==
  /\ pc = "run_ret"
  /\ status = "running"
  /\ status' = "returned"
  /\ retcode' = 0
  /\ pc' = "done"
  /\ UNCHANGED << abortLine, calls, out >>
  /\ UNCHANGED mainVars
  /\ UNCHANGED glVars

Next ==
  \/ GetoptOption
  \/ GetoptDone
  \/ Readfile
  \/ OpenDevice
  \/ CreateGbmDevice
  \/ GetPlatformDisplay
  \/ EglInitialize
  \/ QueryExtensions
  \/ ChooseConfig
  \/ BindAPI
  \/ CreateContext
  \/ MakeCurrent
  \/ PrintLimits
  \/ CreateShader
  \/ CompileShader
  \/ LinkProgram
  \/ UseProgram
  \/ SetupSsboInput
  \/ SetupSsboOutput
  \/ SetupUbo
  \/ SetupTex2d0
  \/ SetupImg2d0in
  \/ SetupImg2d0out
  \/ Dispatch
  \/ PrintSuccess
  \/ GpuComplete
  \/ DumpSsbo
  \/ Teardown
  \/ MainReturn

Spec == Init /\ [][Next]_vars

(* ---------------------------------------------------------------- claims *)

HasCall(fn) == \E i \in 1..Len(calls) : calls[i].fn = fn
HasCallAt(at) == \E i \in 1..Len(calls) : calls[i].at = at
Printed(line) == \E i \in 1..Len(out) : out[i] = line

\* run() has returned to main.
RunReturned == pc = "run_ret" \/ (status = "returned" /\ runCalls > 0)

\* The step of the claimed order a call belongs to, by the line that issues
\* it; 0 for the calls the order does not name (glGetError, the limits).
StepOf(c) ==
  CASE c.fn = "glGetError" -> 0
    [] c.at = 219 -> 1                     \* open the device node
    [] c.at = 222 -> 2                     \* create the GBM device
    [] c.at \in 225..250 -> 3              \* initialise the EGL display
    [] c.at \in 257..260 -> 4              \* create the context, make it current
    [] c.at \in 293..312 -> 5              \* compile the shader
    [] c.at \in 318..328 -> 6              \* link and use the program
    [] c.at \in 116..191 -> 7              \* bind buffers and textures
    [] c.at = 341 -> 8                     \* dispatch
    [] c.at \in 201..212 -> 9              \* dump the output buffer
    [] c.at \in 349..353 -> 10             \* tear down
    [] OTHER -> 0

StepsIssued == SelectSeq(calls, LAMBDA c : StepOf(c) # 0)

\* C1: the external calls of run() are issued in the one order open, GBM
\* device, EGL display, context, compile, link/use, bind, dispatch, dump,
\* teardown: the first step issued is the first of the order, each call
\* belongs to the step of the call before it or to the next step, and a
\* dispatch has eglMakeCurrent and glUseProgram before it.
C1_FixedOrder ==
  LET steps == StepsIssued IN
  /\ steps # << >> => StepOf(steps[1]) = 1
  /\ \A i \in 1..(Len(steps) - 1) :
       StepOf(steps[i + 1]) \in { StepOf(steps[i]), StepOf(steps[i]) + 1 }
  /\ \A i \in 1..Len(calls) :
       calls[i].fn = "glDispatchCompute" =>
         /\ \E j \in 1..(i - 1) : calls[j].fn = "eglMakeCurrent"
         /\ \E j \in 1..(i - 1) : calls[j].fn = "glUseProgram"

C1_Witness ==
  /\ status = "returned"
  /\ HasCall("glDispatchCompute")
  /\ HasCall("glMapBufferRange")
  /\ HasCall("close")

TornDown ==
  /\ HasCall("eglDestroyContext")
  /\ HasCall("eglTerminate")
  /\ HasCall("gbm_device_destroy")
  /\ HasCall("close")

\* C2: every execution of run() that has opened the device and created the
\* GBM device, the EGL display and the context has torn them down (context
\* destroyed, display terminated, GBM device destroyed, descriptor closed)
\* when run() returns, on every path by which it returns.
C2_TeardownOnEveryReturn ==
  (RunReturned /\ HasCall("open") /\ HasCall("gbm_create_device")
     /\ HasCall("eglInitialize") /\ HasCall("eglCreateContext"))
  => TornDown

\* The group counts the command line asks for: those of its last -G, or
\* 1,1,1 without one.
RECURSIVE GroupsAsked(_)
GroupsAsked(os) ==
  IF os = << >> THEN << 1, 1, 1 >>
  ELSE LET o == os[Len(os)]
       IN IF o.opt = "G" THEN SubSeq(o.arg, 1, 3)
          ELSE GroupsAsked(SubSeq(os, 1, Len(os) - 1))

ShaderCompiled == HasCallAt(303) /\ ~Printed("shader compilation failed!:")

\* C3: a process issues at most one glDispatchCompute; its group counts are
\* the three values of -G, or 1,1,1 without -G; and a process that has
\* ended with its arguments parsed, its shader compiled and no assertion
\* before the dispatch failed has issued exactly one.
C3_OneDispatch ==
  /\ Len(dispatches) <= 1
  /\ Len(dispatches) = Cardinality({ i \in 1..Len(calls) : calls[i].fn = "glDispatchCompute" })
  /\ dispatches # << >> => dispatches[1] = GroupsAsked(args)
  /\ (status # "running" /\ ShaderCompiled /\ abortLine \in { 0, 342 })
       => Len(dispatches) = 1

C3_Witness ==
  /\ status = "returned"
  /\ Len(dispatches) = 1
  /\ Len(args) = 2
  /\ args[1].opt = "G"
  /\ args[2].opt = "G"
  /\ args[1].arg # args[2].arg

\* The buffer bound, at setup, to the binding point of the "Output" block.
OutputBuffers == { b \in DOMAIN buffers : << "SSBO", prog.ssboOut, b >> \in bindings }

IndexOfCall(fn) == CHOOSE i \in 1..Len(calls) : calls[i].fn = fn

\* C4: when the program has an "Output" shader storage block, dump_ssbo
\* maps and dumps the buffer setup_ssbo created and bound for that block,
\* opts.bo_size dwords of it (what the store holds then), after the
\* dispatch; when it has none, nothing is mapped or dumped.
C4_DumpsOutputBuffer ==
  /\ mapCall # << >> =>
       /\ prog.ssboOut # GL_INVALID_INDEX
       /\ OutputBuffers = { mapCall[1].buf }
       /\ mapCall[1].dwords = opts.bo_size
       /\ Len(dumped[1]) = opts.bo_size
       /\ dumped[1] = buffers[mapCall[1].buf].data
       /\ HasCall("glDispatchCompute")
       /\ IndexOfCall("glDispatchCompute") < IndexOfCall("glMapBufferRange")
  /\ HasCall("glMapBufferRange") = (mapCall # << >>)
  /\ (mapCall # << >>) = (dumped # << >>)
  /\ pc \in { "free", "run_ret" } => ((mapCall # << >>) = (prog.ssboOut # GL_INVALID_INDEX))

C4_Witness ==
  /\ status = "returned"
  /\ prog.ssboIn = 0
  /\ prog.ssboOut = 1
  /\ mapCall # << >>
  /\ dumped = << << 1, 1, 1, 1, 1, 1, 1, 1, 1, 1, 1, 1 >> >>

\* C5: whenever "Compute shader dispatched and finished successfully" has
\* been printed, the dispatch has been issued and the dispatched work has
\* finished.
C5_PrintedMeansFinished ==
  Printed("Compute shader dispatched and finished successfully")
    => (Len(dispatches) = 1 /\ gpu = "done")

\* The command line is not of the form [-D DEVICE] [-G X,Y,Z] [-S DWORDS]
\* SHADER: an option getopt does not take, a -G without three fields, or
\* not exactly one positional argument.
Rejected ==
  \/ \E i \in 1..Len(args) :
       \/ args[i].opt = "?"
       \/ args[i].opt = "G" /\ Len(args[i].arg) < 3
  \/ npos # 1

UsageOnly ==
  /\ out = << "usage" >>
  /\ status = "returned"
  /\ retcode = -1
  /\ readRet = -2
  /\ runCalls = 0
  /\ calls = << >>

\* C6, as claimed: a command line not of the accepted form ends in the
\* usage text and -1 with no file read, no device opened and no run();
\* every other one ends with run() called exactly once and main returning 0.
C6_UsageOrRun ==
  status # "running" =>
    IF Rejected THEN UsageOnly
    ELSE runCalls = 1 /\ status = "returned" /\ retcode = 0

\* C6, amended: a command line not of the accepted form ends in the usage
\* text and -1 with no file read, no device opened and no run(). Every
\* other one has the shader file read: a failed read ends the process with
\* exit(-1) and no run(); after a read that succeeded run() is called
\* exactly once and main returns 0 when run() returns, which it does unless
\* an assertion of run() aborts the process (or the write past text[] of a
\* file of 64 KiB or more has killed it before run()).
C6_UsageOrReadOrRun ==
  /\ runCalls <= 1
  /\ status # "running" =>
       IF Rejected THEN UsageOnly
       ELSE /\ readRet # -2
            /\ ~Printed("usage")
            /\ CASE status = "exited"   -> readRet = -1 /\ retcode = -1 /\ runCalls = 0
                 [] status = "returned" -> readRet >= 0 /\ retcode = 0 /\ runCalls = 1
                 [] status = "aborted"  -> readRet >= 0 /\ abortLine # 0 /\ runCalls = 1
                 [] status = "crashed"  -> readRet >= TextSize /\ runCalls = 0
            /\ readRet = -1 => status = "exited"
            /\ (readRet \in 0..(TextSize - 1) /\ abortLine = 0)
                 => (status = "returned" /\ retcode = 0 /\ runCalls = 1)

C6_Witness ==
  /\ ~Rejected
  /\ Len(args) = 2
  /\ status = "exited"
  /\ retcode = -1
  /\ runCalls = 0

\* The -S value: atoi of the last -S, or 256 without one.
RECURSIVE SizeAsked(_)
SizeAsked(os) ==
  IF os = << >> THEN 256
  ELSE LET o == os[Len(os)]
       IN IF o.opt = "S" THEN atoi(o.arg)
          ELSE SizeAsked(SubSeq(os, 1, Len(os) - 1))

\* The buffers of the input blocks, as the program holds them.
InputBuffers ==
  (IF prog.ssboIn # GL_INVALID_INDEX THEN { ssbo_table[prog.ssboIn] } ELSE {}) \cup
  (IF prog.ubo # GL_INVALID_INDEX THEN { bound["UBO"] } ELSE {})

BuffersAsClaimed(S) ==
  \A b \in DOMAIN buffers :
    /\ buffers[b].hasStore
    /\ buffers[b].size = 4 * S
    /\ Len(buffers[b].data) = S
    /\ b \in InputBuffers =>
         \A i \in 0..(S - 1) : buffers[b].data[i + 1] = i
    /\ (b \in OutputBuffers /\ dispatches = << >>) =>
         \A i \in 0..(S - 1) : buffers[b].data[i + 1] = 0

C8_CompileFailureReturns ==
  Printed("shader compilation failed!:") =>
    /\ Printed("info log") = (shaderRet[1] > 1)
    /\ HasCall("glGetShaderInfoLog") = (shaderRet[1] > 1)
    /\ RunReturned
    /\ status \in { "running", "returned" }
    /\ \A i \in 1..Len(calls) : calls[i].at <= 312
    /\ ~HasCall("glCreateProgram")
    /\ ~HasCall("glLinkProgram")
    /\ ~HasCall("glGenBuffers")
    /\ ~HasCall("glGenTextures")
    /\ ~HasCall("glDispatchCompute")
    /\ ~HasCall("glMapBufferRange")
    /\ buffers = << >>
    /\ textures = << >>
    /\ dispatches = << >>
    /\ dumped = << >>
    /\ ~Printed("Compute shader dispatched and finished successfully")

C8_Witness ==
  /\ status = "returned"
  /\ retcode = 0
  /\ Printed("shader compilation failed!:")
  /\ Printed("info log")

\* C9: readfile stores the terminating NUL at an index below the size of
\* text[], whatever the length of the file; and when read() fails the
\* process exits with -1 and run() is not called.
C9_ReadfileInBounds ==
  /\ nulIndex # -1 => nulIndex < TextSize
  /\ readRet = -1 => (status = "exited" /\ retcode = -1 /\ runCalls = 0)

====
